---- MODULE Spec2Model ----
(***************************************************************************)
(* Gana-Vithi: the database schema, its row-level-security policies and    *)
(* triggers (the SQL migration), and the Index page's authentication gate. *)
(*                                                                         *)
(* A table is the set of its rows, a row a record of the columns the       *)
(* policies, constraints and triggers read or write.  A request is issued  *)
(* by a requester p: the id of an authenticated principal, or NULL for the *)
(* anonymous role.  What a request returns and what it leaves in the table *)
(* are operators of the state and the request; the action stores the latter.*)
(***************************************************************************)
EXTENDS Integers, FiniteSets, Sequences, TLC

\* ------------------------------------------------------------------ bounds
\* Row ids 1..MaxId are available to each table with a generated key.
MaxId == 2
\* The clock runs from 0 to MaxTime.
MaxTime == 1
\* Seed rows 1..MaxRef of each reference table are modelled.
MaxRef == 2
\* The Index page is followed for at most MaxNav navigations.
MaxNav == 2

\* ------------------------------------------------------------------ values
NULL == "NULL"
SqlTRUE == "true"
SqlFALSE == "false"
SqlBools == {SqlTRUE, SqlFALSE, NULL}

UserIds == {"u1", "u2"}
\* Row ids are text, as uuids are.
Ids == {ToString(i) : i \in 1..MaxId}
RefIds == {ToString(i) : i \in 1..MaxRef}
Times == 0..MaxTime
Names == {"Asha", "Ravi"}
Titles == {"t1", "t2"}
QuestTypes == {"profile", "scholarship"}
Statuses == {"pending", "in_progress", "completed"}
ItemTypes == {"college"}

VARIABLES
    authUsers,           \* auth.users: a row per principal
    profiles,
    colleges,
    scholarships,
    career_paths,
    chat_conversations,
    chat_messages,
    user_progress,
    user_saved_items,
    now,                 \* NOW()
    loading,             \* Index: useAuth().loading
    user,                \* Index: useAuth().user
    view,                \* Index: what the latest render returned
    effectPending,       \* Index: the effect of the latest render has not run
    signOutPc,           \* Index: handleSignOut's position
    path,                \* the router's location
    navigations,         \* the navigate() calls so far, latest last
    updatedRows,         \* history: <<table, id>> of the rows an UPDATE has written
    deletedItems         \* history: the saved items a DELETE has removed

dbvars == <<authUsers, profiles, colleges, scholarships, career_paths,
            chat_conversations, chat_messages, user_progress,
            user_saved_items, now>>
uivars == <<loading, user, view, effectPending, signOutPc, path, navigations>>
auxvars == <<updatedRows, deletedItems>>
vars == <<dbvars, uivars, auxvars>>

\* ------------------------------------------------------- SQL expressions
\* a = b in SQL: NULL when either side is NULL.
SqlEq(a, b) == IF a = NULL \/ b = NULL THEN NULL
               ELSE IF a = b THEN SqlTRUE ELSE SqlFALSE

\* A USING or WITH CHECK expression admits a row only when it is true.
Holds(e) == e = SqlTRUE

COALESCE(a, b) == IF a /= NULL THEN a ELSE b

\* json ->> key: the text of the key, NULL when the json or the key is absent.
JsonNull == [isnull |-> TRUE]
JsonText(j, key) == IF j = JsonNull THEN NULL
                    ELSE IF key \in DOMAIN j THEN j[key] ELSE NULL

\* auth.uid() and the role of requester p.  OWNER is the role that owns the
\* tables and ran the migration: it has no principal and bypasses row level
\* security.
OWNER == "postgres"
auth_uid(p) == IF p = OWNER THEN NULL ELSE p
role(p) == IF p = NULL THEN "anon" ELSE IF p = OWNER THEN OWNER ELSE "authenticated"
\* (mutant) row level security is not enabled: no request is checked.
RlsNotEnabled(p) == TRUE
BypassRls(p) == role(p) = OWNER

\* The row r with the columns of patch s overwritten.
Patched(r, s) == [c \in DOMAIN r |-> IF c \in DOMAIN s THEN s[c] ELSE r[c]]

\* ------------------------------------------------------------- policies
Users_can_view_their_own_profile(p, r) == Holds(SqlEq(auth_uid(p), r.id))
Users_can_update_their_own_profile(p, r) == Holds(SqlEq(auth_uid(p), r.id))
Users_can_insert_their_own_profile(p, r) == Holds(SqlEq(auth_uid(p), r.id))

Anyone_can_view_colleges(p, r) == role(p) = "authenticated" /\ TRUE
\* (mutant) USING (true), as for the other two reference tables.
Anyone_can_view_scholarships(p, r) == role(p) = "authenticated" /\ TRUE
Anyone_can_view_active_scholarships(p, r) ==
    role(p) = "authenticated" /\ Holds(SqlEq(r.is_active, SqlTRUE))
Anyone_can_view_career_paths(p, r) == role(p) = "authenticated" /\ TRUE

\* (mutant) USING (auth.uid() IS NOT NULL): any principal sees the row.
View_conversations_of_any_user(p, r) == auth_uid(p) /= NULL
Users_can_view_their_own_conversations(p, r) ==
    Holds(SqlEq(auth_uid(p), r.user_id))
Users_can_create_their_own_conversations(p, r) ==
    Holds(SqlEq(auth_uid(p), r.user_id))
\* (mutant) USING (auth.uid() IS NOT NULL): the new owner is not compared.
Update_conversations_of_any_user(p, r) == auth_uid(p) /= NULL
Users_can_update_their_own_conversations(p, r) ==
    Holds(SqlEq(auth_uid(p), r.user_id))
Users_can_delete_their_own_conversations(p, r) ==
    Holds(SqlEq(auth_uid(p), r.user_id))

Users_can_view_messages_in_their_conversations(p, r) ==
    \E c \in chat_conversations :
        /\ Holds(SqlEq(c.id, r.conversation_id))
        /\ Holds(SqlEq(c.user_id, auth_uid(p)))
\* (mutant) the parent is looked up without AND user_id = auth.uid().
Insert_messages_in_any_conversation(p, r) ==
    \E c \in chat_conversations : Holds(SqlEq(c.id, r.conversation_id))
Users_can_insert_messages_in_their_conversations(p, r) ==
    \E c \in chat_conversations :
        /\ Holds(SqlEq(c.id, r.conversation_id))
        /\ Holds(SqlEq(c.user_id, auth_uid(p)))

Users_can_view_their_own_progress(p, r) ==
    Holds(SqlEq(auth_uid(p), r.user_id))
\* (mutant) WITH CHECK (auth.uid() IS NOT NULL): a row for any owner passes.
Insert_progress_for_any_user(p, r) == auth_uid(p) /= NULL
Users_can_insert_their_own_progress(p, r) ==
    Holds(SqlEq(auth_uid(p), r.user_id))
Users_can_update_their_own_progress(p, r) ==
    Holds(SqlEq(auth_uid(p), r.user_id))

Users_can_view_their_own_saved_items(p, r) ==
    Holds(SqlEq(auth_uid(p), r.user_id))
Users_can_insert_their_own_saved_items(p, r) ==
    Holds(SqlEq(auth_uid(p), r.user_id))
Users_can_delete_their_own_saved_items(p, r) ==
    Holds(SqlEq(auth_uid(p), r.user_id))

UserTables == {"profiles", "chat_conversations", "chat_messages",
               "user_progress", "user_saved_items"}
RefTables == {"colleges", "scholarships", "career_paths"}
Tables == UserTables \cup RefTables
Commands == {"SELECT", "INSERT", "UPDATE", "DELETE"}

\* USING of the policy of table t for command cmd (SELECT, UPDATE, DELETE).
Using(t, cmd, p, r) ==
    IF BypassRls(p) THEN TRUE ELSE
    CASE t = "profiles" /\ cmd = "SELECT" -> Users_can_view_their_own_profile(p, r)
      [] t = "profiles" /\ cmd = "UPDATE" -> Users_can_update_their_own_profile(p, r)
      [] t = "colleges" /\ cmd = "SELECT" -> Anyone_can_view_colleges(p, r)
      [] t = "scholarships" /\ cmd = "SELECT" -> Anyone_can_view_active_scholarships(p, r)
      [] t = "career_paths" /\ cmd = "SELECT" -> Anyone_can_view_career_paths(p, r)
      [] t = "chat_conversations" /\ cmd = "SELECT" -> Users_can_view_their_own_conversations(p, r)
      [] t = "chat_conversations" /\ cmd = "UPDATE" -> Users_can_update_their_own_conversations(p, r)
      [] t = "chat_conversations" /\ cmd = "DELETE" -> Users_can_delete_their_own_conversations(p, r)
      [] t = "chat_messages" /\ cmd = "SELECT" -> Users_can_view_messages_in_their_conversations(p, r)
      [] t = "user_progress" /\ cmd = "SELECT" -> Users_can_view_their_own_progress(p, r)
      [] t = "user_progress" /\ cmd = "UPDATE" -> Users_can_update_their_own_progress(p, r)
      [] t = "user_saved_items" /\ cmd = "SELECT" -> Users_can_view_their_own_saved_items(p, r)
      [] t = "user_saved_items" /\ cmd = "DELETE" -> Users_can_delete_their_own_saved_items(p, r)
      [] OTHER -> FALSE

\* WITH CHECK of the policy of table t for command cmd (INSERT, UPDATE).  No
\* UPDATE policy states WITH CHECK, so its USING expression is the check.
WithCheck(t, cmd, p, r) ==
    IF BypassRls(p) THEN TRUE ELSE
    CASE t = "profiles" /\ cmd = "INSERT" -> Users_can_insert_their_own_profile(p, r)
      [] t = "chat_conversations" /\ cmd = "INSERT" -> Users_can_create_their_own_conversations(p, r)
      [] t = "chat_messages" /\ cmd = "INSERT" -> Users_can_insert_messages_in_their_conversations(p, r)
      [] t = "user_progress" /\ cmd = "INSERT" -> Users_can_insert_their_own_progress(p, r)
      [] t = "user_saved_items" /\ cmd = "INSERT" -> Users_can_insert_their_own_saved_items(p, r)
      [] cmd = "UPDATE" -> Using(t, "UPDATE", p, r)
      [] OTHER -> FALSE

\* --------------------------------------------------------------- schema
Rows(t) ==
    CASE t = "profiles" -> profiles
      [] t = "colleges" -> colleges
      [] t = "scholarships" -> scholarships
      [] t = "career_paths" -> career_paths
      [] t = "chat_conversations" -> chat_conversations
      [] t = "chat_messages" -> chat_messages
      [] t = "user_progress" -> user_progress
      [] t = "user_saved_items" -> user_saved_items

Columns(t) ==
    CASE t = "profiles" -> {"id", "full_name", "updated_at"}
      [] t = "colleges" -> {"id", "name"}
      [] t = "scholarships" -> {"id", "is_active"}
      [] t = "career_paths" -> {"id", "title"}
      [] t = "chat_conversations" -> {"id", "user_id", "title", "updated_at"}
      [] t = "chat_messages" -> {"id", "conversation_id"}
      [] t = "user_progress" -> {"id", "user_id", "quest_type", "status", "updated_at"}
      [] t = "user_saved_items" -> {"id", "user_id", "item_type", "item_id"}

\* The columns declared NOT NULL or PRIMARY KEY.
NotNull(t) ==
    CASE t = "profiles" -> {"id"}
      [] t = "colleges" -> {"id", "name"}
      [] t = "scholarships" -> {"id"}
      [] t = "career_paths" -> {"id", "title"}
      [] t = "chat_conversations" -> {"id", "user_id"}
      [] t = "chat_messages" -> {"id", "conversation_id"}
      [] t = "user_progress" -> {"id", "user_id", "quest_type"}
      [] t = "user_saved_items" -> {"id", "user_id", "item_type", "item_id"}

\* (mutant) the UNIQUE table constraints are left out.
PrimaryKeyOnly(t) == {{"id"}}
\* (mutant) UNIQUE(user_id, item_type): item_id is left out of the key.
ItemIdLeftOut(t) ==
    CASE t = "user_progress" -> {{"id"}, {"user_id", "quest_type"}}
      [] t = "user_saved_items" -> {{"id"}, {"user_id", "item_type"}}
      [] OTHER -> {{"id"}}
\* The PRIMARY KEY and UNIQUE constraints, each the set of its columns.
UniqueKeys(t) ==
    CASE t = "user_progress" -> {{"id"}, {"user_id", "quest_type"}}
      [] t = "user_saved_items" -> {{"id"}, {"user_id", "item_type", "item_id"}}
      [] OTHER -> {{"id"}}

\* The column of t that REFERENCES auth.users(id), NULL when there is none.
UserRef(t) ==
    CASE t = "profiles" -> "id"
      [] t \in {"chat_conversations", "user_progress", "user_saved_items"} -> "user_id"
      [] OTHER -> NULL

\* The tables whose BEFORE UPDATE trigger runs handle_updated_at.
UpdatedAtTriggers == {"profiles", "chat_conversations", "user_progress"}

\* gen_random_uuid(): an id that no row of t has.
FreeIds(t) == {i \in (IF t \in RefTables THEN RefIds ELSE Ids) :
                  \A r \in Rows(t) : r.id /= i}
gen_random_uuid(t) == CHOOSE i \in FreeIds(t) : TRUE

\* DEFAULT of column c of table t.
Default(t, c) ==
    CASE c = "id" /\ t /= "profiles" -> gen_random_uuid(t)
      [] c = "updated_at" -> now
      [] c = "status" -> "pending"
      [] c = "is_active" -> SqlTRUE
      [] OTHER -> NULL

\* The row an INSERT of the columns s makes: a column left out gets its default.
NewRow(t, s) == [c \in Columns(t) |-> IF c \in DOMAIN s THEN s[c] ELSE Default(t, c)]

\* ------------------------------------------------------------- triggers
\* (mutant) RETURN NEW without the assignment.
handle_updated_at_unassigned(new) == new
\* handle_updated_at: NEW.updated_at = NOW().
handle_updated_at(new) == [new EXCEPT !.updated_at = now]

\* The BEFORE UPDATE triggers of table t applied to the new row.
BeforeUpdate(t, new) == IF t \in UpdatedAtTriggers THEN handle_updated_at(new) ELSE new

\* (mutant) full_name is copied without COALESCE.
handle_new_user_without_coalesce(new) ==
    NewRow("profiles",
           [id |-> new.id, full_name |-> JsonText(new.raw_user_meta_data, "full_name")])
\* handle_new_user: the profiles row inserted for the new auth.users row.
handle_new_user(new) ==
    NewRow("profiles",
           [id |-> new.id,
            full_name |-> COALESCE(JsonText(new.raw_user_meta_data, "full_name"), "")])

\* ---------------------------------------------------------- constraints
\* The ids of auth.users.
Principals == {a.id : a \in authUsers}

KeyFree(rows, key) ==
    \A a, b \in rows : a /= b => \E c \in key : a[c] /= b[c]

\* The first constraint of t that the table contents `rows` break with the
\* written rows `news`, "ok" when none: NOT NULL, then the unique indexes,
\* then the foreign keys (checked at the end of the statement).
Constraints(t, rows, news, msgs) ==
    IF \E r \in news : \E c \in NotNull(t) : r[c] = NULL THEN "not_null_violation"
    ELSE IF \E k \in UniqueKeys(t) : ~KeyFree(rows, k) THEN "unique_violation"
    ELSE IF UserRef(t) /= NULL /\ \E r \in news : r[UserRef(t)] \notin Principals
         THEN "foreign_key_violation"
    ELSE IF t = "chat_messages"
            /\ \E r \in news : \A c \in chat_conversations : c.id /= r.conversation_id
         THEN "foreign_key_violation"
    ELSE IF t = "chat_conversations"
            /\ \E m \in msgs : \A c \in rows : c.id /= m.conversation_id
         THEN "foreign_key_violation"
    ELSE "ok"

\* ------------------------------------------------------------ statements
\* A filter is the set of ids a row may have (WHERE id IN f).
Matches(f, r) == r.id \in f

\* The rows of t that requester p sees.
Visible(t, p) == {r \in Rows(t) : Using(t, "SELECT", p, r)}

\* The rows of t that an UPDATE or DELETE by p with filter f works on.
Targets(t, cmd, p, f) ==
    {r \in Visible(t, p) : Matches(f, r) /\ Using(t, cmd, p, r)}

\* The new version of row r under UPDATE ... SET s.
Updated(t, r, s) == BeforeUpdate(t, Patched(r, s))

\* (mutant) the foreign key of chat_messages has no ON DELETE CASCADE action.
MessagesKept(convs) == chat_messages
\* ON DELETE CASCADE from chat_conversations: the messages left when the
\* conversations are `convs`.
CascadeMessages(convs) ==
    {m \in chat_messages : \E c \in convs : c.id = m.conversation_id}

SetTable(t, rows) ==
    /\ profiles' = IF t = "profiles" THEN rows ELSE profiles
    /\ colleges' = IF t = "colleges" THEN rows ELSE colleges
    /\ scholarships' = IF t = "scholarships" THEN rows ELSE scholarships
    /\ career_paths' = IF t = "career_paths" THEN rows ELSE career_paths
    /\ chat_conversations' = IF t = "chat_conversations" THEN rows ELSE chat_conversations
    /\ chat_messages' = IF t = "chat_messages" THEN rows
                        ELSE IF t = "chat_conversations" THEN CascadeMessages(rows)
                        ELSE chat_messages
    /\ user_progress' = IF t = "user_progress" THEN rows ELSE user_progress
    /\ user_saved_items' = IF t = "user_saved_items" THEN rows ELSE user_saved_items

\* SELECT * FROM t, by p: the rows are returned, nothing is written.
Select(t, p) ==
    /\ Visible(t, p) \in SUBSET Rows(t)
    /\ UNCHANGED dbvars

\* What INSERT INTO t of the row r by p ends with.
InsertResult(t, p, r) ==
    IF ~WithCheck(t, "INSERT", p, r) THEN "rls_violation"
    ELSE IF r \in Rows(t) THEN "unique_violation"
    ELSE Constraints(t, Rows(t) \cup {r}, {r}, chat_messages)

\* The rows of t after INSERT INTO t (columns of s) VALUES (s) by p.
AfterInsert(t, p, s) ==
    IF InsertResult(t, p, NewRow(t, s)) = "ok" THEN Rows(t) \cup {NewRow(t, s)}
    ELSE Rows(t)

Insert(t, p, s) ==
    /\ SetTable(t, AfterInsert(t, p, s))
    /\ UNCHANGED <<authUsers, now>>

\* What UPDATE t SET s WHERE id IN f by p ends with.
UpdateResult(t, p, f, s) ==
    LET old == Targets(t, "UPDATE", p, f)
        news == {Updated(t, r, s) : r \in old}
        rows == (Rows(t) \ old) \cup news
    IN IF \E r \in news : ~WithCheck(t, "UPDATE", p, r) THEN "rls_violation"
       ELSE IF Cardinality(rows) /= Cardinality(Rows(t)) THEN "unique_violation"
       ELSE Constraints(t, rows, news, chat_messages)

\* The rows of t after UPDATE t SET s WHERE id IN f by p.
AfterUpdate(t, p, f, s) ==
    IF UpdateResult(t, p, f, s) = "ok"
    THEN (Rows(t) \ Targets(t, "UPDATE", p, f))
         \cup {Updated(t, r, s) : r \in Targets(t, "UPDATE", p, f)}
    ELSE Rows(t)

Update(t, p, f, s) ==
    /\ SetTable(t, AfterUpdate(t, p, f, s))
    /\ UNCHANGED <<authUsers, now>>

\* The rows of t after DELETE FROM t WHERE id IN f by p.
AfterDelete(t, p, f) == Rows(t) \ Targets(t, "DELETE", p, f)

Delete(t, p, f) ==
    /\ SetTable(t, AfterDelete(t, p, f))
    /\ UNCHANGED <<authUsers, now>>

\* auth.users gets the row `new`; on_auth_user_created then inserts its
\* profile as the owner of handle_new_user, in the same transaction: a
\* profile that cannot be inserted fails the signup.
SignupResult(new) ==
    IF \E a \in authUsers : a.id = new.id THEN "unique_violation"
    ELSE IF \E q \in profiles : q.id = handle_new_user(new).id THEN "unique_violation"
    ELSE "ok"

Signup(new) ==
    /\ authUsers' = IF SignupResult(new) = "ok" THEN authUsers \cup {new} ELSE authUsers
    /\ profiles' = IF SignupResult(new) = "ok"
                   THEN profiles \cup {handle_new_user(new)} ELSE profiles
    /\ UNCHANGED <<colleges, scholarships, career_paths, chat_conversations,
                   chat_messages, user_progress, user_saved_items, now>>

\* ON DELETE CASCADE from auth.users: the rows of t left when principal u
\* is deleted.
CascadeUser(t, u) == {r \in Rows(t) : r[UserRef(t)] /= u}

\* DELETE FROM auth.users WHERE id = u, by the authentication service: the
\* foreign keys remove the principal's profile, conversations (and, through
\* them, their messages), progress rows and saved items.
DeleteUser(u) ==
    /\ u \in Principals
    /\ authUsers' = {a \in authUsers : a.id /= u}
    /\ profiles' = CascadeUser("profiles", u)
    /\ chat_conversations' = CascadeUser("chat_conversations", u)
    /\ chat_messages' = CascadeMessages(CascadeUser("chat_conversations", u))
    /\ user_progress' = CascadeUser("user_progress", u)
    /\ user_saved_items' = CascadeUser("user_saved_items", u)
    /\ UNCHANGED <<colleges, scholarships, career_paths, now>>

\* Time passes.
Tick ==
    /\ now < MaxTime
    /\ now' = now + 1
    /\ UNCHANGED <<authUsers, profiles, colleges, scholarships, career_paths,
                   chat_conversations, chat_messages, user_progress,
                   user_saved_items>>

\* ------------------------------------------------------- initial state
\* The seed rows of the migration (the first MaxRef of each table).
SeedColleges == {[id |-> i, name |-> "IIT Delhi"] : i \in RefIds}
SeedScholarships == {[id |-> i, is_active |-> SqlTRUE] : i \in RefIds}
SeedCareerPaths == {[id |-> i, title |-> "Software Engineer"] : i \in RefIds}

InitDb ==
    /\ authUsers = {}
    /\ profiles = {}
    /\ colleges = SeedColleges
    /\ scholarships = SeedScholarships
    /\ career_paths = SeedCareerPaths
    /\ chat_conversations = {}
    /\ chat_messages = {}
    /\ user_progress = {}
    /\ user_saved_items = {}
    /\ now = 0

\* ---------------------------------------------------------- Index page
\* What Index returns for the values useAuth() gave it.
Render(l, u) == IF l THEN "spinner" ELSE IF u = NULL THEN "null" ELSE "page"

\* navigate(to), called by `by`, with the values of the render it closes over.
Navigate(to, by) ==
    /\ path' = to
    /\ navigations' = Append(navigations,
                             [to |-> to, by |-> by, loading |-> loading, user |-> user,
                              signOut |-> signOutPc])

\* (mutant) if (!user) navigate("/auth"): loading is not looked at.
RunEffectWithoutLoading ==
    /\ path = "/"
    /\ effectPending
    /\ effectPending' = FALSE
    /\ IF user = NULL
       THEN Navigate("/auth", "useEffect")
       ELSE UNCHANGED <<path, navigations>>
    /\ UNCHANGED <<loading, user, view, signOutPc>>

\* The effect of Index: if (!loading && !user) navigate("/auth").
RunEffect ==
    /\ path = "/"
    /\ effectPending
    /\ effectPending' = FALSE
    /\ IF ~loading /\ user = NULL
       THEN Navigate("/auth", "useEffect")
       ELSE UNCHANGED <<path, navigations>>
    /\ UNCHANGED <<loading, user, view, signOutPc>>

\* useAuth() gives new values: Index renders again and its effect, whose
\* dependencies changed, is scheduled.  The effect of a render runs before
\* the next render.
AuthChange(l, u) ==
    /\ path = "/"
    /\ ~effectPending
    /\ <<l, u>> /= <<loading, user>>
    /\ loading' = l
    /\ user' = u
    /\ view' = Render(l, u)
    /\ effectPending' = TRUE
    /\ UNCHANGED <<signOutPc, path, navigations>>

\* The router shows Index again (after a login at /auth): it mounts, renders
\* and schedules its effect.
Mount(l, u) ==
    /\ path = "/auth"
    /\ signOutPc = "idle"
    /\ Len(navigations) < MaxNav
    /\ path' = "/"
    /\ loading' = l
    /\ user' = u
    /\ view' = Render(l, u)
    /\ effectPending' = TRUE
    /\ UNCHANGED <<signOutPc, navigations>>

\* The Logout button of the rendered page is clicked: handleSignOut calls
\* signOut() and awaits it.
ClickLogout ==
    /\ path = "/"
    /\ view = "page"
    /\ signOutPc = "idle"
    /\ signOutPc' = "awaiting"
    /\ UNCHANGED <<loading, user, view, effectPending, path, navigations>>

\* The promise of signOut() settles.
SignOutSettles ==
    /\ signOutPc = "awaiting"
    /\ signOutPc' = "settled"
    /\ UNCHANGED <<loading, user, view, effectPending, path, navigations>>

\* The promise of signOut() is rejected: the await throws, and handleSignOut
\* ends without reaching navigate.
SignOutRejects ==
    /\ signOutPc = "awaiting"
    /\ signOutPc' = "idle"
    /\ UNCHANGED <<loading, user, view, effectPending, path, navigations>>

\* (mutant) signOut() is called without await: navigate("/auth") runs while
\* the promise is pending.
HandleSignOutWithoutAwait ==
    /\ signOutPc \in {"awaiting", "settled"}
    /\ signOutPc' = "idle"
    /\ Navigate("/auth", "handleSignOut")
    /\ UNCHANGED <<loading, user, view, effectPending>>

\* handleSignOut resumes after the await: navigate("/auth").
HandleSignOutResumes ==
    /\ signOutPc = "settled"
    /\ signOutPc' = "idle"
    /\ Navigate("/auth", "handleSignOut")
    /\ UNCHANGED <<loading, user, view, effectPending>>

InitUi ==
    /\ loading = TRUE
    /\ user = NULL
    /\ view = Render(TRUE, NULL)
    /\ effectPending = TRUE
    /\ signOutPc = "idle"
    /\ path = "/"
    /\ navigations = <<>>

InitAux ==
    /\ updatedRows = {}
    /\ deletedItems = {}

Init == InitDb /\ InitUi /\ InitAux

\* ------------------------------------------------------------- requests
\* The requesters of the application tier: the principals and the anonymous
\* role.
Clients == Principals \cup {NULL}

\* The signup metadata: none, without full_name, with a null and with a text.
Metas == {JsonNull, [phone |-> "1"], [full_name |-> NULL]}
             \cup {[full_name |-> n] : n \in Names}

EmptyRecord == [c \in {} |-> NULL]

\* What the callers of a specification supply: the principals that sign up
\* and their metadata, the names, titles, timestamps and status values
\* written, and whether updates rewrite keys and owners.
Scope(users, metas, names, titles, times, statuses, moves) ==
    [users |-> users, metas |-> metas, names |-> names, titles |-> titles,
     times |-> times, statuses |-> statuses, moves |-> moves]

\* The columns an INSERT INTO t gives.
Inserts(t, sc) ==
    CASE t = "profiles" -> {[id |-> u, full_name |-> n] : u \in UserIds, n \in sc.names}
      [] t = "colleges" -> {[name |-> "IIT Delhi"]}
      [] t = "scholarships" -> {EmptyRecord} \cup {[is_active |-> b] : b \in SqlBools}
      [] t = "career_paths" -> {[title |-> "Software Engineer"]}
      [] t = "chat_conversations" ->
            {[user_id |-> u, title |-> "t1"] : u \in UserIds}
            \cup {[user_id |-> u, title |-> "t1", updated_at |-> x] :
                     u \in UserIds, x \in sc.times}
      [] t = "chat_messages" -> {[conversation_id |-> c] : c \in Ids}
      [] t = "user_progress" ->
            {[user_id |-> u, quest_type |-> q] : u \in UserIds, q \in QuestTypes}
            \cup {[user_id |-> u, quest_type |-> q, status |-> x] :
                     u \in UserIds, q \in QuestTypes, x \in sc.statuses}
            \cup {[user_id |-> u, quest_type |-> q, updated_at |-> x] :
                     u \in UserIds, q \in QuestTypes, x \in sc.times}
      [] t = "user_saved_items" ->
            {[user_id |-> u, item_type |-> y, item_id |-> i] :
                u \in UserIds, y \in ItemTypes, i \in RefIds}

\* The SET lists of an UPDATE of t that rewrite a key or an owner.
Moves(t) ==
    CASE t = "profiles" -> {[id |-> u] : u \in UserIds}
      [] t = "chat_conversations" -> {[user_id |-> u] : u \in UserIds}
      [] t = "chat_messages" -> {[conversation_id |-> c] : c \in Ids}
      [] t = "user_progress" ->
            {[user_id |-> u] : u \in UserIds} \cup {[quest_type |-> q] : q \in QuestTypes}
      [] t = "user_saved_items" -> {[user_id |-> u] : u \in UserIds}
      [] OTHER -> {}

\* The SET lists of an UPDATE of t.
Sets(t, sc) ==
    (IF sc.moves THEN Moves(t) ELSE {}) \cup
    CASE t = "profiles" ->
            {[full_name |-> n] : n \in sc.names} \cup {[updated_at |-> x] : x \in sc.times}
      [] t = "colleges" -> {[name |-> "NIT Trichy"]}
      [] t = "scholarships" -> {[is_active |-> b] : b \in SqlBools}
      [] t = "career_paths" -> {[title |-> "Doctor"]}
      [] t = "chat_conversations" ->
            {[title |-> x] : x \in sc.titles} \cup {[updated_at |-> x] : x \in sc.times}
      [] t = "user_progress" ->
            {[status |-> x] : x \in sc.statuses} \cup {[updated_at |-> x] : x \in sc.times}
      [] OTHER -> {}

\* The SET lists of an UPDATE of t that give a row another primary key.
Renumbers(t) == IF t = "profiles" THEN {} ELSE {[id |-> i] : i \in Ids}

\* The WHERE clauses of an UPDATE or DELETE of t: one id, or every id.
AllIds(t) == IF t = "profiles" THEN UserIds ELSE IF t \in RefTables THEN RefIds ELSE Ids
Filters(t) == {{i} : i \in AllIds(t)} \cup {AllIds(t)}

\* An INSERT can be followed while an id is left for its row.
CanInsert(t, s) == "id" \in DOMAIN s \/ FreeIds(t) /= {}

\* The rows of t after the migration.
InitialRows(t) ==
    CASE t = "colleges" -> SeedColleges
      [] t = "scholarships" -> SeedScholarships
      [] t = "career_paths" -> SeedCareerPaths
      [] OTHER -> {}

\* The tables are exercised a group at a time, the others left as the
\* migration made them: no policy, constraint or trigger of one group reads
\* or writes a table of another (profiles, which every signup writes, goes
\* with each).
Group(t) ==
    IF t \in {"chat_conversations", "chat_messages"}
    THEN {"chat_conversations", "chat_messages"} ELSE {t}
Quiet(t) == \A o \in Tables \ (Group(t) \cup {"profiles"}) : Rows(o) = InitialRows(o)

\* ---------------------------------------------------------------- steps
\* TS: the tables requested; who: the requesters; sc: what they supply.
SignupStep(sc) ==
    /\ \E u \in sc.users, m \in sc.metas : Signup([id |-> u, raw_user_meta_data |-> m])
    /\ UNCHANGED uivars

SelectStep(TS, who) ==
    /\ \E t \in TS : Quiet(t) /\ \E p \in who : Select(t, p)
    /\ UNCHANGED uivars

InsertStep(TS, who, sc) ==
    /\ \E t \in TS : Quiet(t) /\ \E p \in who : \E s \in Inserts(t, sc) :
          CanInsert(t, s) /\ Insert(t, p, s)
    /\ UNCHANGED uivars

UpdateStep(TS, who, sc) ==
    /\ \E t \in TS : Quiet(t) /\ \E p \in who : \E f \in Filters(t), s \in Sets(t, sc) :
          Update(t, p, f, s)
    /\ UNCHANGED uivars

DeleteStep(TS, who) ==
    /\ \E t \in TS : Quiet(t) /\ \E p \in who : \E f \in Filters(t) : Delete(t, p, f)
    /\ UNCHANGED uivars

RenumberStep(TS, who) ==
    /\ \E t \in TS : Quiet(t) /\ \E p \in who : \E f \in Filters(t), s \in Renumbers(t) :
          Update(t, p, f, s)
    /\ UNCHANGED uivars

TickStep == Tick /\ UNCHANGED uivars

DeleteUserStep(sc) ==
    /\ \E u \in sc.users : DeleteUser(u)
    /\ UNCHANGED uivars

\* ------------------------------------------------------------ histories
\* The key <<user_id, item_type, item_id>> of a saved item.
ItemKey(r) == <<r.user_id, r.item_type, r.item_id>>

NoHistory == UNCHANGED auxvars

\* updatedRows: a row that the step changed and kept is marked, a row that
\* the step removed is unmarked (an INSERT adds a row unmarked).
Kept(t, r) == \E q \in Rows(t)' : q.id = r.id
TrackUpdates ==
    /\ updatedRows' =
          {k \in updatedRows : \E r \in Rows(k[1]) : r.id = k[2] /\ Kept(k[1], r)}
          \cup UNION {{<<t, r.id>> : r \in {q \in Rows(t) : Kept(t, q) /\ q \notin Rows(t)'}} :
                       t \in UpdatedAtTriggers}
    /\ UNCHANGED deletedItems

\* deletedItems: the keys of the saved items that the step removed are added.
TrackDeletes ==
    /\ deletedItems' = deletedItems
          \cup {ItemKey(r) : r \in user_saved_items \ user_saved_items'}
    /\ UNCHANGED updatedRows

\* ------------------------------------------------------- specifications
\* The application tier on the user-scoped tables.
Access == Scope(UserIds, {JsonNull}, {"Asha"}, Titles, {}, {}, TRUE)
Next ==
    \/ SignupStep(Access) /\ NoHistory
    \/ SelectStep(UserTables, Clients) /\ NoHistory
    \/ InsertStep(UserTables, Clients, Access) /\ NoHistory
    \/ UpdateStep(UserTables, Clients, Access) /\ NoHistory
    \/ DeleteStep(UserTables, Clients) /\ NoHistory
Spec == Init /\ [][Next]_vars

\* The saved items, with the history of what was deleted.
NextSaved ==
    \/ SignupStep(Access) /\ TrackDeletes
    \/ SelectStep({"user_saved_items"}, Clients) /\ TrackDeletes
    \/ InsertStep({"user_saved_items"}, Clients, Access) /\ TrackDeletes
    \/ UpdateStep({"user_saved_items"}, Clients, Access) /\ TrackDeletes
    \/ DeleteStep({"user_saved_items"}, Clients) /\ TrackDeletes
SpecSaved == Init /\ [][NextSaved]_vars

\* The reference tables: the application tier, and the owner role that
\* administers them.
NextRef ==
    \/ SignupStep(Access) /\ NoHistory
    \/ SelectStep(RefTables, Clients) /\ NoHistory
    \/ InsertStep(RefTables, Clients \cup {OWNER}, Access) /\ NoHistory
    \/ UpdateStep(RefTables, Clients \cup {OWNER}, Access) /\ NoHistory
    \/ DeleteStep(RefTables, Clients \cup {OWNER}) /\ NoHistory
SpecRef == Init /\ [][NextRef]_vars

\* Signups with every shape of metadata, and the requests on profiles.
Signups == Scope(UserIds, Metas, Names, {}, {}, {}, TRUE)
NextSignup ==
    \/ SignupStep(Signups) /\ NoHistory
    \/ SelectStep({"profiles"}, Clients) /\ NoHistory
    \/ InsertStep({"profiles"}, Clients, Signups) /\ NoHistory
    \/ UpdateStep({"profiles"}, Clients, Signups) /\ NoHistory
    \/ DeleteStep({"profiles"}, Clients) /\ NoHistory
SpecSignup == Init /\ [][NextSignup]_vars

\* The tables with an updated_at trigger, under a running clock and a caller
\* that supplies timestamps, with the history of what was updated.
Timed == Scope({"u1"}, {JsonNull}, {"Asha"}, {"t1"}, Times, {}, FALSE)
NextTime ==
    \/ SignupStep(Timed) /\ TrackUpdates
    \/ TickStep /\ TrackUpdates
    \/ InsertStep(UpdatedAtTriggers, Clients, Timed) /\ TrackUpdates
    \/ UpdateStep(UpdatedAtTriggers, Clients, Timed) /\ TrackUpdates
    \/ DeleteStep(UpdatedAtTriggers, Clients) /\ TrackUpdates
SpecTime == Init /\ [][NextTime]_vars

\* The progress rows, under callers that supply a status: one of the three
\* that the column's comment lists, another text, and null.
Quests == Scope(UserIds, {JsonNull}, {"Asha"}, {}, {}, {"completed", "archived", NULL}, FALSE)
NextProgress ==
    \/ SignupStep(Quests) /\ NoHistory
    \/ SelectStep({"user_progress"}, Clients) /\ NoHistory
    \/ InsertStep({"user_progress"}, Clients, Quests) /\ NoHistory
    \/ UpdateStep({"user_progress"}, Clients, Quests) /\ NoHistory
    \/ DeleteStep({"user_progress"}, Clients) /\ NoHistory
SpecProgress == Init /\ [][NextProgress]_vars

\* The user-scoped tables with their foreign keys at work: principals are
\* deleted as well as created, conversations are deleted and renumbered.
Cascades == Scope(UserIds, {JsonNull}, {"Asha"}, {"t1"}, {}, {}, TRUE)
NextCascade ==
    \/ SignupStep(Cascades) /\ NoHistory
    \/ DeleteUserStep(Cascades) /\ NoHistory
    \/ SelectStep(UserTables, Clients) /\ NoHistory
    \/ InsertStep(UserTables, Clients, Cascades) /\ NoHistory
    \/ UpdateStep(UserTables, Clients, Cascades) /\ NoHistory
    \/ RenumberStep(UserTables, Clients) /\ NoHistory
    \/ DeleteStep(UserTables, Clients) /\ NoHistory
SpecCascade == Init /\ [][NextCascade]_vars

\* The Index page of a session, with the principals that can sign in.
UiStep(A) == A /\ UNCHANGED <<dbvars, auxvars>>
NextIndex ==
    \/ SignupStep(Access) /\ NoHistory
    \/ UiStep(RunEffect)
    \/ UiStep(\E l \in BOOLEAN, u \in Clients : AuthChange(l, u))
    \/ UiStep(\E l \in BOOLEAN, u \in Clients : Mount(l, u))
    \/ UiStep(ClickLogout)
    \/ UiStep(SignOutSettles)
    \/ UiStep(SignOutRejects)
    \/ UiStep(HandleSignOutResumes)
SpecIndex == Init /\ [][NextIndex]_vars

\* React runs the effect of a committed render: a pending effect does not
\* wait forever.
SpecIndexFair == SpecIndex /\ WF_vars(UiStep(RunEffect))

\* =============================================================== claims
\* The principal that owns row r of table t: the id of a profile, the
\* user_id of the parent conversation of a message (among the conversations
\* convs), the user_id of any other row.
OwnerIn(t, r, convs) ==
    CASE t = "profiles" -> r.id
      [] t = "chat_messages" ->
            IF \E c \in convs : c.id = r.conversation_id
            THEN (CHOOSE c \in convs : c.id = r.conversation_id).user_id
            ELSE NULL
      [] OTHER -> r.user_id
Owned(t, B) == {r \in Rows(t) : OwnerIn(t, r, chat_conversations) = B}

\* The rows that B owns in t, and the messages that B owns, are all still
\* there, unchanged and owned by B, when a statement on t leaves `rows` in t.
Untouched(t, B, rows) ==
    LET convs == IF t = "chat_conversations" THEN rows ELSE chat_conversations
        msgs == IF t = "chat_messages" THEN rows
                ELSE IF t = "chat_conversations"
                     THEN {m \in chat_messages : \E c \in rows : c.id = m.conversation_id}
                     ELSE chat_messages
    IN /\ \A r \in Owned(t, B) : r \in rows /\ OwnerIn(t, r, convs) = B
       /\ \A m \in Owned("chat_messages", B) :
             m \in msgs /\ OwnerIn("chat_messages", m, convs) = B

\* C1: for distinct principals A and B, in every reachable state, a SELECT by
\* A returns no row that B owns, and no UPDATE and no DELETE that A can issue
\* removes or changes a row that B owns (profiles, conversations, messages
\* by their parent conversation, progress, saved items).
C1_Isolation ==
    \A A \in Principals : \A B \in Principals \ {A} : \A t \in UserTables :
        /\ Visible(t, A) \cap Owned(t, B) = {}
        /\ \A f \in Filters(t) :
              /\ Untouched(t, B, AfterDelete(t, A, f))
              /\ \A s \in Sets(t, Access) : Untouched(t, B, AfterUpdate(t, A, f, s))

\* u1 and u2 each own a conversation, u2's with a message; u1 has retitled
\* its own, and its UPDATE of every id would write again, yet leaves u2's.
C1_Witness ==
    \E a \in chat_conversations, b \in chat_conversations :
        /\ a.user_id = "u1" /\ a.title = "t2"
        /\ b.user_id = "u2" /\ b.title = "t1"
        /\ \E m \in chat_messages : m.conversation_id = b.id
        /\ a \notin AfterUpdate("chat_conversations", "u1", Ids, [title |-> "t1"])
        /\ b \in AfterUpdate("chat_conversations", "u1", Ids, [title |-> "t1"])

\* Whether the policies let p run cmd on the row r of t: r is returned by the
\* SELECT, worked on by the UPDATE or DELETE, or passes the INSERT's check.
Permitted(t, cmd, p, r) ==
    CASE cmd = "SELECT" -> r \in Visible(t, p)
      [] cmd = "INSERT" -> WithCheck(t, "INSERT", p, r)
      [] OTHER -> r \in Targets(t, cmd, p, {r.id})

\* The rows a command is asked about: those of the table, and for INSERT
\* those a caller can give.
Candidates(t, cmd) ==
    IF cmd = "INSERT"
    THEN {NewRow(t, s) : s \in {x \in Inserts(t, Access) : CanInsert(t, x)}}
    ELSE Rows(t)

OwnerField(t, r) == IF t = "profiles" THEN r.id ELSE r.user_id
OwnedTables == {"profiles", "chat_conversations", "user_progress", "user_saved_items"}

\* The commands that a policy of the migration is written for.
PolicyCommands(t) ==
    CASE t = "profiles" -> {"SELECT", "INSERT", "UPDATE"}
      [] t = "chat_conversations" -> {"SELECT", "INSERT", "UPDATE", "DELETE"}
      [] t = "user_progress" -> {"SELECT", "INSERT", "UPDATE"}
      [] t = "user_saved_items" -> {"SELECT", "INSERT", "DELETE"}

\* C2 as claimed: each of SELECT, INSERT, UPDATE, DELETE on each user-scoped
\* table is permitted exactly when the row's owner field is the requester.
C2_AllFourCommands ==
    \A t \in OwnedTables, cmd \in Commands, p \in Principals :
        \A r \in Candidates(t, cmd) :
            Permitted(t, cmd, p, r) <=> OwnerField(t, r) = p

\* C2 (amended): a command on a user-scoped table is permitted exactly when
\* the row's owner field is the requester and the command is one the table
\* has a policy for: no DELETE on profiles and user_progress, no UPDATE on
\* user_saved_items.
C2_OwnerAndPolicy ==
    \A t \in OwnedTables, cmd \in Commands, p \in Principals :
        \A r \in Candidates(t, cmd) :
            Permitted(t, cmd, p, r) <=> (OwnerField(t, r) = p /\ cmd \in PolicyCommands(t))

\* u1 owns a saved item that it may select and delete and may not update,
\* while u2, who may insert its own, may do none of these to it.
C2_Witness ==
    /\ "u2" \in Principals
    /\ \E r \in user_saved_items :
          /\ r.user_id = "u1"
          /\ Permitted("user_saved_items", "SELECT", "u1", r)
          /\ Permitted("user_saved_items", "DELETE", "u1", r)
          /\ ~Permitted("user_saved_items", "UPDATE", "u1", r)
          /\ ~Permitted("user_saved_items", "SELECT", "u2", r)
    /\ \E r \in Candidates("user_saved_items", "INSERT") :
          Permitted("user_saved_items", "INSERT", "u2", r)

\* C3: an INSERT into chat_messages by p ends "ok" only if a conversation
\* with the message's conversation_id and user_id = p exists; otherwise it
\* fails and leaves chat_messages as it was.
C3_InsertNeedsOwnConversation ==
    \A p \in Clients : \A s \in Inserts("chat_messages", Access) :
        CanInsert("chat_messages", s) =>
            LET r == NewRow("chat_messages", s)
                own == \E c \in chat_conversations :
                          c.id = r.conversation_id /\ c.user_id = p
            IN /\ InsertResult("chat_messages", p, r) = "ok" => own
               /\ ~own => /\ InsertResult("chat_messages", p, r) /= "ok"
                          /\ AfterInsert("chat_messages", p, s) = chat_messages

\* u1 has a message in its own conversation, and its INSERT into u2's
\* conversation is refused.
C3_Witness ==
    \E a \in chat_conversations, b \in chat_conversations :
        /\ a.user_id = "u1" /\ b.user_id = "u2"
        /\ \E m \in chat_messages : m.conversation_id = a.id
        /\ CanInsert("chat_messages", [conversation_id |-> b.id])
        /\ InsertResult("chat_messages", "u1",
                        NewRow("chat_messages", [conversation_id |-> b.id]))
              = "rls_violation"

\* Two progress rows are of the same user and quest type.
SamePair(a, b) == a.user_id = b.user_id /\ a.quest_type = b.quest_type

\* C4: user_progress never holds two rows with the same (user_id,
\* quest_type); an INSERT of a pair that a row has fails, with a uniqueness
\* violation when its owner issues it; an INSERT by a principal of its own
\* row whose pair no row has (the quest type may be another user's) is
\* accepted.
C4_OneRowPerQuest ==
    /\ \A a, b \in user_progress : SamePair(a, b) => a = b
    /\ \A p \in Clients : \A s \in Inserts("user_progress", Access) :
          CanInsert("user_progress", s) =>
              LET r == NewRow("user_progress", s)
                  dup == \E q \in user_progress : SamePair(q, r)
                  res == InsertResult("user_progress", p, r)
              IN /\ dup => res /= "ok"
                 /\ dup /\ p = r.user_id => res = "unique_violation"
                 /\ ~dup /\ p = r.user_id /\ p \in Principals => res = "ok"

\* u1 has a row for a quest: its second INSERT of the quest is a uniqueness
\* violation, and u2's INSERT of the same quest is accepted.
C4_Witness ==
    /\ \E q \in user_progress : q.user_id = "u1" /\ q.quest_type = "profile"
    /\ Cardinality(user_progress) = 1
    /\ "u2" \in Principals
    /\ InsertResult("user_progress", "u1",
                    NewRow("user_progress", [user_id |-> "u1", quest_type |-> "profile"]))
          = "unique_violation"
    /\ InsertResult("user_progress", "u2",
                    NewRow("user_progress", [user_id |-> "u2", quest_type |-> "profile"]))
          = "ok"

\* C5: user_saved_items never holds two rows with the same (user_id,
\* item_type, item_id); an INSERT of a triple that a row has fails, with a
\* uniqueness violation when its owner issues it; the owner's DELETE removes
\* the row, and the owner's INSERT of a triple that no row has is accepted,
\* also when a row with that triple was deleted before.
C5_OneRowPerItem ==
    /\ \A a, b \in user_saved_items : ItemKey(a) = ItemKey(b) => a = b
    /\ \A r \in user_saved_items :
          r \notin AfterDelete("user_saved_items", r.user_id, {r.id})
    /\ \A p \in Clients : \A s \in Inserts("user_saved_items", Access) :
          CanInsert("user_saved_items", s) =>
              LET r == NewRow("user_saved_items", s)
                  dup == \E q \in user_saved_items : ItemKey(q) = ItemKey(r)
                  res == InsertResult("user_saved_items", p, r)
              IN /\ dup => res /= "ok"
                 /\ dup /\ p = r.user_id => res = "unique_violation"
                 /\ ~dup /\ p = r.user_id /\ p \in Principals => res = "ok"
                 /\ ~dup /\ p = r.user_id /\ ItemKey(r) \in deletedItems => res = "ok"

\* u1 has saved an item again after deleting it, and a second INSERT of it
\* is a uniqueness violation.
C5_Witness ==
    \E r \in user_saved_items :
        /\ r.user_id = "u1"
        /\ ItemKey(r) \in deletedItems
        /\ CanInsert("user_saved_items", [user_id |-> "u1", item_type |-> r.item_type,
                                          item_id |-> r.item_id])
        /\ InsertResult("user_saved_items", "u1",
              NewRow("user_saved_items", [user_id |-> "u1", item_type |-> r.item_type,
                                          item_id |-> r.item_id]))
              = "unique_violation"

\* C6: a SELECT on scholarships by an authenticated principal returns exactly
\* the rows whose is_active is true, none whose is_active is false or null.
C6_ActiveScholarshipsOnly ==
    \A p \in Principals :
        Visible("scholarships", p) = {r \in scholarships : r.is_active = SqlTRUE}

\* The owner has left an active scholarship and one whose is_active is null
\* (and one that is false would be hidden too); u1 is returned the active one.
C6_Witness ==
    /\ "u1" \in Principals
    /\ \E a, b \in scholarships :
          /\ a.is_active = SqlTRUE
          /\ b.is_active = NULL
          /\ Visible("scholarships", "u1") = {a}
          /\ Using("scholarships", "SELECT", "u1", [b EXCEPT !.is_active = SqlFALSE]) = FALSE

\* What signup metadata m says the full name is: its full_name text, or the
\* empty string when m is null, has no full_name or has a null one.
NameOf(m) ==
    IF m /= JsonNull /\ "full_name" \in DOMAIN m /\ m.full_name /= NULL
    THEN m.full_name ELSE ""

ProfilesOf(u, rows) == {r \in rows : r.id = u}

\* C7: every principal has exactly one profiles row, whatever the clients
\* request; and the step that creates a principal leaves exactly one
\* profiles row with its id, whose full_name is that of the metadata, or
\* the empty string.
C7_OneProfilePerPrincipal ==
    /\ [](\A a \in authUsers : Cardinality(ProfilesOf(a.id, profiles)) = 1)
    /\ [][\A a \in authUsers' \ authUsers :
              /\ Cardinality(ProfilesOf(a.id, profiles')) = 1
              /\ \A r \in ProfilesOf(a.id, profiles') :
                    r.full_name = NameOf(a.raw_user_meta_data)]_vars

\* u1 signed up as Asha and has renamed its profile; u2 signed up with
\* metadata that has no full_name and its profile has the empty name.
C7_Witness ==
    /\ \E a \in authUsers :
          /\ a.id = "u1" /\ a.raw_user_meta_data = [full_name |-> "Asha"]
          /\ \E r \in profiles : r.id = "u1" /\ r.full_name = "Ravi"
    /\ \E a \in authUsers :
          /\ a.id = "u2" /\ a.raw_user_meta_data = [phone |-> "1"]
          /\ \E r \in profiles : r.id = "u2" /\ r.full_name = ""

\* C8: an UPDATE of profiles, chat_conversations or user_progress that ends
\* "ok" stores NOW() in updated_at of every row it writes, whatever
\* updated_at its SET list gives; a row changed by a step holds the current
\* time afterwards; the clock does not go back, and the updated_at of a row
\* that an UPDATE has written before does not decrease.
C8_UpdatedAtIsNow ==
    /\ [](\A t \in UpdatedAtTriggers, p \in Clients :
             \A f \in Filters(t), s \in Sets(t, Timed) :
                UpdateResult(t, p, f, s) = "ok" =>
                    \A r \in Targets(t, "UPDATE", p, f) :
                        /\ Updated(t, r, s) \in AfterUpdate(t, p, f, s)
                        /\ Updated(t, r, s).updated_at = now)
    /\ [][/\ now' >= now
          /\ \A t \in UpdatedAtTriggers : \A q \in Rows(t) : \A r \in Rows(t)' :
                q.id = r.id /\ q /= r =>
                    /\ r.updated_at = now'
                    /\ <<t, q.id>> \in updatedRows => r.updated_at >= q.updated_at]_vars

\* The clock has advanced; a conversation that an UPDATE has written holds
\* the current time, and an UPDATE that sets updated_at to 0 would leave the
\* current time in it.
C8_Witness ==
    /\ now >= 1
    /\ \E c \in chat_conversations :
          /\ <<"chat_conversations", c.id>> \in updatedRows
          /\ c.updated_at = now
          /\ UpdateResult("chat_conversations", c.user_id, {c.id}, [updated_at |-> 0]) = "ok"
          /\ \A r \in AfterUpdate("chat_conversations", c.user_id, {c.id}, [updated_at |-> 0]) :
                r.id = c.id => r.updated_at = now

\* C9: no INSERT, UPDATE or DELETE that a principal or the anonymous role
\* can issue changes colleges, scholarships or career_paths: the INSERT is
\* refused by row level security, the UPDATE and DELETE work on no row.
C9_ReferenceTablesReadOnly ==
    \A t \in RefTables, p \in Clients :
        /\ \A s \in Inserts(t, Access) :
              CanInsert(t, s) =>
                  /\ InsertResult(t, p, NewRow(t, s)) = "rls_violation"
                  /\ AfterInsert(t, p, s) = Rows(t)
        /\ \A f \in Filters(t) :
              /\ Targets(t, "DELETE", p, f) = {}
              /\ AfterDelete(t, p, f) = Rows(t)
              /\ Targets(t, "UPDATE", p, f) = {}
              /\ \A s \in Sets(t, Access) : AfterUpdate(t, p, f, s) = Rows(t)

\* The owner has renamed one college and deleted another; u1 sees the table,
\* and its INSERT is refused.
C9_Witness ==
    /\ "u1" \in Principals
    /\ \E r \in colleges : r.name = "NIT Trichy"
    /\ FreeIds("colleges") /= {}
    /\ Visible("colleges", "u1") = colleges
    /\ InsertResult("colleges", "u1", NewRow("colleges", [name |-> "IIT Delhi"]))
          = "rls_violation"

\* C10: Index returns the protected page only when loading is false and
\* user is not null, the spinner while loading is true, nothing when loading
\* is false and user is null; in that last case its effect navigates to
\* /auth (it is pending, or the location is /auth already), and the effect
\* navigates in no other case, so never while loading is true.
C10_AuthGate ==
    /\ view = "page" <=> (~loading /\ user /= NULL)
    /\ loading => view = "spinner"
    /\ ~loading /\ user = NULL => view = "null" /\ (effectPending \/ path = "/auth")
    /\ \A i \in DOMAIN navigations :
          navigations[i].by = "useEffect" =>
              /\ navigations[i].to = "/auth"
              /\ ~navigations[i].loading
              /\ navigations[i].user = NULL

\* The effect has sent a session without a user to /auth, and Index, shown
\* again with a user, renders the page.
C10_Witness ==
    /\ Len(navigations) >= 1
    /\ navigations[1].by = "useEffect"
    /\ path = "/"
    /\ view = "page"
    /\ user /= NULL

\* C11: the status of every user_progress row is 'pending', 'in_progress'
\* or 'completed', and an INSERT or UPDATE that gives another status, or
\* null, does not end "ok".
C11_StatusDomain ==
    /\ \A r \in user_progress : r.status \in Statuses
    /\ \A p \in Clients :
          /\ \A s \in Inserts("user_progress", Quests) :
                CanInsert("user_progress", s) /\ "status" \in DOMAIN s /\ s.status \notin Statuses
                    => InsertResult("user_progress", p, NewRow("user_progress", s)) /= "ok"
          /\ \A f \in Filters("user_progress"), s \in Sets("user_progress", Quests) :
                "status" \in DOMAIN s /\ s.status \notin Statuses
                /\ Targets("user_progress", "UPDATE", p, f) /= {}
                    => UpdateResult("user_progress", p, f, s) /= "ok"

\* u1 has stored a progress row with the status 'archived' and has set the
\* status of another to null.
C11_Witness ==
    \E a, b \in user_progress :
        /\ a.user_id = "u1" /\ a.status = "archived"
        /\ b.user_id = "u1" /\ b.status = NULL

\* The tables whose rows an UPDATE policy lets their owner write.
TransferTables == {"profiles", "chat_conversations", "user_progress"}
OwnerColumn(t) == IF t = "profiles" THEN "id" ELSE "user_id"

\* C12: an UPDATE of profiles, chat_conversations or user_progress that sets
\* the owner column of a row it works on to another identity is refused by
\* row level security and leaves the table as it was; and every row that an
\* UPDATE by p writes is owned by p, before and after.
C12_NoOwnershipTransfer ==
    \A t \in TransferTables, p \in Clients : \A f \in Filters(t) :
        \A s \in Sets(t, Cascades) :
            /\ (/\ OwnerColumn(t) \in DOMAIN s
                /\ \E r \in Targets(t, "UPDATE", p, f) : OwnerField(t, r) /= s[OwnerColumn(t)])
               => /\ UpdateResult(t, p, f, s) = "rls_violation"
                  /\ AfterUpdate(t, p, f, s) = Rows(t)
            /\ \A r \in Rows(t) \ AfterUpdate(t, p, f, s) : OwnerField(t, r) = p
            /\ \A r \in AfterUpdate(t, p, f, s) \ Rows(t) : OwnerField(t, r) = p

\* u1 and u2 have signed up and u1 owns one conversation, numbered 2;
\* giving it to u2 is refused, and so is giving u2's id to u1's profile.
C12_Witness ==
    /\ {"u1", "u2"} \subseteq Principals
    /\ \E c \in chat_conversations :
          /\ c.user_id = "u1" /\ c.id = "2"
          /\ Cardinality(chat_conversations) = 1
          /\ UpdateResult("chat_conversations", "u1", {c.id}, [user_id |-> "u2"])
                = "rls_violation"
          /\ UpdateResult("chat_conversations", "u1", {c.id}, [title |-> "t1"]) = "ok"
    /\ UpdateResult("profiles", "u1", {"u1"}, [id |-> "u2"]) = "rls_violation"

\* The rows of t that principal u owns, messages by their conversation.
RowsOf(t, u) == {r \in Rows(t) : OwnerIn(t, r, chat_conversations) = u}

\* C13: in every reachable state each message has its conversation, and each
\* profile, conversation, progress row and saved item has its principal; a
\* step that removes a conversation removes its messages, and a step that
\* removes a principal removes every row that the principal owned.
C13_ReferentialIntegrity ==
    /\ [](/\ \A m \in chat_messages :
                \E c \in chat_conversations : c.id = m.conversation_id
          /\ \A t \in OwnedTables : \A r \in Rows(t) : OwnerField(t, r) \in Principals)
    /\ [][/\ \A c \in chat_conversations :
                (\A d \in chat_conversations' : d.id /= c.id) =>
                    \A m \in chat_messages : m.conversation_id = c.id => m \notin chat_messages'
          /\ \A u \in Principals \ Principals' :
                \A t \in UserTables : RowsOf(t, u) \cap Rows(t)' = {}]_vars

\* A cascade has removed a conversation and its message (no policy lets a
\* client delete a message, and ids are given in order): both principals
\* exist, and the one conversation and one message left, u2's, are second ones.
C13_Witness ==
    /\ {"u1", "u2"} \subseteq Principals
    /\ \A c \in chat_conversations : c.user_id = "u2"
    /\ \E c \in chat_conversations : \E m \in chat_messages :
          /\ m.conversation_id = c.id
          /\ c.id = "2" /\ m.id = "2"
    /\ Cardinality(chat_conversations) = 1
    /\ Cardinality(chat_messages) = 1

\* C14: every navigate("/auth") of handleSignOut is called after the promise
\* of signOut() has settled, and no step taken while it is pending adds one;
\* and whenever loading is false and user is null, the location becomes
\* /auth, with Index not rendering the page.
C14_SignOutThenNavigate ==
    /\ [](\A i \in DOMAIN navigations :
             navigations[i].by = "handleSignOut" =>
                 navigations[i].to = "/auth" /\ navigations[i].signOut = "settled")
    /\ [][signOutPc = "awaiting" =>
             \A i \in DOMAIN navigations' \ DOMAIN navigations :
                 navigations'[i].by /= "handleSignOut"]_vars
    /\ ((~loading /\ user = NULL) ~> (path = "/auth" /\ view /= "page"))

\* Logout was clicked; the session lost its user while signOut() was pending
\* and the effect navigated; then the promise settled and handleSignOut
\* navigated.
C14_Witness ==
    /\ Len(navigations) = 2
    /\ navigations[1].by = "useEffect" /\ navigations[1].signOut = "awaiting"
    /\ navigations[2].by = "handleSignOut" /\ navigations[2].user = NULL
    /\ path = "/auth"
    /\ signOutPc = "idle"

====
